---------------------------- MODULE Spec2Model ----------------------------
(***************************************************************************)
(* The CSV upload pipeline of the policies API: UploadController.upload,   *)
(* ValidationService, RuleEngine and its rules, PolicyService.insertPolicy *)
(* and OperationService.                                                   *)
(*                                                                         *)
(* CSV text is modelled as tuples of one-character strings, so trimming    *)
(* and number parsing are computed on the characters.  Codes, field names  *)
(* and messages of the program are TLA+ strings.                           *)
(***************************************************************************)
EXTENDS Integers, Sequences, FiniteSets, TLC

(***************************************************************************)
(* Bounds of the model.                                                    *)
(***************************************************************************)
\* longest mixed file (lines after the header, blank lines included)
MaxLines == 2
\* bulk files: up to MaxBulkBad lines with eight errors each, followed by
\* up to MaxBulkLow lines with one error each
MaxBulkBad == 7
MaxBulkLow == 3
\* how many times a client that retries sends its file
NumUploads == 2
\* how many rules are registered on a RuleEngine after its construction
MaxRegistered == 2

Uploads == 1..NumUploads

(***************************************************************************)
(* JavaScript values.                                                      *)
(***************************************************************************)
\* a JS number: NaN, or a finite value
NaN == [nan |-> TRUE, val |-> 0]
Num(v) == [nan |-> FALSE, val |-> v]
isNaN(x) == x.nan
\* JS relational operators: every comparison with NaN is false
Lt(a, b) == ~a.nan /\ ~b.nan /\ a.val < b.val
Ge(a, b) == ~a.nan /\ ~b.nan /\ a.val >= b.val

Whitespace == {" "}
Digits == {"0", "1", "2", "3", "4", "5", "6", "7", "8", "9"}
DigitValue(c) ==
  CASE c = "0" -> 0 [] c = "1" -> 1 [] c = "2" -> 2 [] c = "3" -> 3
    [] c = "4" -> 4 [] c = "5" -> 5 [] c = "6" -> 6 [] c = "7" -> 7
    [] c = "8" -> 8 [] c = "9" -> 9

RECURSIVE TrimStart(_)
TrimStart(s) ==
  IF s # <<>> /\ Head(s) \in Whitespace THEN TrimStart(Tail(s)) ELSE s

RECURSIVE TrimEnd(_)
TrimEnd(s) ==
  IF s # <<>> /\ s[Len(s)] \in Whitespace
  THEN TrimEnd(SubSeq(s, 1, Len(s) - 1))
  ELSE s

\* String.prototype.trim
Trim(s) == TrimEnd(TrimStart(s))

\* the longest prefix of s made of digits
RECURSIVE LeadingDigits(_)
LeadingDigits(s) ==
  IF s # <<>> /\ Head(s) \in Digits
  THEN <<Head(s)>> \o LeadingDigits(Tail(s))
  ELSE <<>>

RECURSIVE DigitsValue(_)
DigitsValue(ds) ==
  IF ds = <<>> THEN 0
  ELSE 10 * DigitsValue(SubSeq(ds, 1, Len(ds) - 1)) + DigitValue(ds[Len(ds)])

\* parseFloat(text): leading whitespace is skipped, then an optional sign and
\* the longest run of digits are read; what follows the digits is ignored;
\* NaN when no digit is read.  (The texts of the model hold no '.', exponent
\* or 'Infinity'.)
parseFloat(s) ==
  LET t == TrimStart(s)
      signed == t # <<>> /\ Head(t) \in {"-", "+"}
      body == IF signed THEN Tail(t) ELSE t
      ds == LeadingDigits(body)
      v == DigitsValue(ds)
  IN  IF ds = <<>> THEN NaN
      ELSE IF signed /\ Head(t) = "-" THEN Num(0 - v) ELSE Num(v)

\* new Date(text).getTime() for the date texts of the model: a text of the
\* form YYYY-MM-DD with month 1..12 and day 1..31 gives a time value, here
\* a day index that orders dates as the time value does; the empty text
\* and a text with a letter give NaN (Invalid Date).
IsIsoDate(s) ==
  /\ Len(s) = 10
  /\ s[5] = "-" /\ s[8] = "-"
  /\ \A i \in {1, 2, 3, 4, 6, 7, 9, 10} : s[i] \in Digits
  /\ DigitsValue(SubSeq(s, 6, 7)) \in 1..12
  /\ DigitsValue(SubSeq(s, 9, 10)) \in 1..31

NewDate(s) ==
  IF IsIsoDate(s)
  THEN Num(DigitsValue(SubSeq(s, 1, 4)) * 372
           + (DigitsValue(SubSeq(s, 6, 7)) - 1) * 31
           + (DigitsValue(SubSeq(s, 9, 10)) - 1))
  ELSE NaN

(***************************************************************************)
(* ValidationService                                                       *)
(***************************************************************************)
s_active == <<"a", "c", "t", "i", "v", "e">>
s_expired == <<"e", "x", "p", "i", "r", "e", "d">>
s_cancelled == <<"c", "a", "n", "c", "e", "l", "l", "e", "d">>
s_Property == <<"P", "r", "o", "p", "e", "r", "t", "y">>
s_Auto == <<"A", "u", "t", "o">>
s_Life == <<"L", "i", "f", "e">>
s_Health == <<"H", "e", "a", "l", "t", "h">>

VALID_STATUSES == {s_active, s_expired, s_cancelled}
VALID_POLICY_TYPES == {s_Property, s_Auto, s_Life, s_Health}

ValidationError(rowNumber, field, code, message) ==
  [row_number |-> rowNumber, field |-> field, code |-> code, message |-> message]

\* !value || value.trim() === ''
validateRequiredField(value, fieldName, errorMessage, rowNumber) ==
  IF value = <<>> \/ Trim(value) = <<>>
  THEN <<ValidationError(rowNumber, fieldName, "REQUIRED_FIELD", errorMessage)>>
  ELSE <<>>

\* mutant: equal dates pass the range check
validateDateFieldsAllowsEqual(startDateStr, endDateStr, rowNumber) ==
  LET startDate == NewDate(startDateStr)
      endDate == NewDate(endDateStr)
  IN  (IF isNaN(startDate)
       THEN <<ValidationError(rowNumber, "start_date", "INVALID_DATE_FORMAT",
                              "Invalid start_date format")>>
       ELSE <<>>)
      \o
      (IF isNaN(endDate)
       THEN <<ValidationError(rowNumber, "end_date", "INVALID_DATE_FORMAT",
                              "Invalid end_date format")>>
       ELSE <<>>)
      \o
      (IF ~isNaN(startDate) /\ ~isNaN(endDate) /\ Lt(endDate, startDate)
       THEN <<ValidationError(rowNumber, "start_date", "INVALID_DATE_RANGE",
                              "start_date must be before end_date")>>
       ELSE <<>>)

validateDateFields(startDateStr, endDateStr, rowNumber) ==
  LET startDate == NewDate(startDateStr)
      endDate == NewDate(endDateStr)
  IN  (IF isNaN(startDate)
       THEN <<ValidationError(rowNumber, "start_date", "INVALID_DATE_FORMAT",
                              "Invalid start_date format")>>
       ELSE <<>>)
      \o
      (IF isNaN(endDate)
       THEN <<ValidationError(rowNumber, "end_date", "INVALID_DATE_FORMAT",
                              "Invalid end_date format")>>
       ELSE <<>>)
      \o
      (IF ~isNaN(startDate) /\ ~isNaN(endDate) /\ Ge(startDate, endDate)
       THEN <<ValidationError(rowNumber, "start_date", "INVALID_DATE_RANGE",
                              "start_date must be before end_date")>>
       ELSE <<>>)

validateStatusField(status, rowNumber) ==
  IF status \notin VALID_STATUSES
  THEN <<ValidationError(rowNumber, "status", "INVALID_STATUS",
                         "status must be one of: active, expired, cancelled")>>
  ELSE <<>>

validatePolicyTypeField(policyType, rowNumber) ==
  IF policyType \notin VALID_POLICY_TYPES
  THEN <<ValidationError(rowNumber, "policy_type", "INVALID_POLICY_TYPE",
                         "policy_type must be one of: Property, Auto, Life, Health")>>
  ELSE <<>>

\* the CSV parser yields strings only, so the value is always parsed
validateNumericField(value, fieldName, errorMessage, rowNumber) ==
  LET numericValue == parseFloat(value)
  IN  IF isNaN(numericValue) \/ Lt(numericValue, Num(0))
      THEN <<ValidationError(rowNumber, fieldName, "INVALID_NUMBER", errorMessage)>>
      ELSE <<>>

\* mutant: the checks stop at a missing policy_number
validateTechnicalShortCircuit(input, rowNumber) ==
  LET required == validateRequiredField(input.policy_number, "policy_number",
                                        "policy_number is required", rowNumber)
  IN  IF required # <<>> THEN required
      ELSE validateRequiredField(input.customer, "customer",
                                 "customer is required", rowNumber)
           \o validateDateFields(input.start_date, input.end_date, rowNumber)
           \o validateStatusField(input.status, rowNumber)
           \o validatePolicyTypeField(input.policy_type, rowNumber)
           \o validateNumericField(input.premium_usd, "premium_usd",
                                   "premium_usd must be a positive number", rowNumber)
           \o validateNumericField(input.insured_value_usd, "insured_value_usd",
                                   "insured_value_usd must be a positive number",
                                   rowNumber)

validateTechnical(input, rowNumber) ==
  validateRequiredField(input.policy_number, "policy_number",
                        "policy_number is required", rowNumber)
  \o validateRequiredField(input.customer, "customer",
                           "customer is required", rowNumber)
  \o validateDateFields(input.start_date, input.end_date, rowNumber)
  \o validateStatusField(input.status, rowNumber)
  \o validatePolicyTypeField(input.policy_type, rowNumber)
  \o validateNumericField(input.premium_usd, "premium_usd",
                          "premium_usd must be a positive number", rowNumber)
  \o validateNumericField(input.insured_value_usd, "insured_value_usd",
                          "insured_value_usd must be a positive number", rowNumber)

parseToPolicy(input) ==
  [policy_number |-> Trim(input.policy_number),
   customer |-> Trim(input.customer),
   policy_type |-> input.policy_type,
   start_date |-> NewDate(input.start_date),
   end_date |-> NewDate(input.end_date),
   premium_usd |-> parseFloat(input.premium_usd),
   status |-> input.status,
   insured_value_usd |-> parseFloat(input.insured_value_usd)]

(***************************************************************************)
(* Business rules and RuleEngine                                           *)
(***************************************************************************)
PROPERTY_MIN_VALUE == 5000
AUTO_MIN_VALUE == 10000

PropertyMinInsuredValueRule ==
  [errorCode |-> "PROPERTY_VALUE_TOO_LOW",
   field |-> "insured_value_usd",
   errorMessage |-> "Property policies must have insured value >= $5,000",
   appliesToType |-> s_Property,
   MIN_VALUE |-> PROPERTY_MIN_VALUE]

AutoMinInsuredValueRule ==
  [errorCode |-> "AUTO_VALUE_TOO_LOW",
   field |-> "insured_value_usd",
   errorMessage |-> "Auto policies must have insured value >= $10,000",
   appliesToType |-> s_Auto,
   MIN_VALUE |-> AUTO_MIN_VALUE]

appliesTo(rule, policy) == policy.policy_type = rule.appliesToType

\* mutant: the minimum itself is too low
ruleValidateAboveMinimum(rule, policy) ==
  Lt(Num(rule.MIN_VALUE), policy.insured_value_usd)

\* the validate method of the rule's class: the minimum-value rules compare
\* the insured value, a TestRule returns a fixed answer
ruleValidate(rule, policy) ==
  IF "MIN_VALUE" \in DOMAIN rule
  THEN Ge(policy.insured_value_usd, Num(rule.MIN_VALUE))
  ELSE rule.passes

\* a rule class written by a user of the engine: it applies to one policy
\* type and its validate returns false
TestRule(type, code) ==
  [errorCode |-> code, field |-> "customer", errorMessage |-> "Test rule failed",
   appliesToType |-> type, passes |-> FALSE]

\* mutant: validate is asked without asking appliesTo
executeWithoutAppliesTo(rule, policy, rowNumber) ==
  IF ~ruleValidate(rule, policy)
  THEN <<ValidationError(rowNumber, rule.field, rule.errorCode, rule.errorMessage)>>
  ELSE <<>>

\* the abstract methods BusinessRule.execute calls, in order
executeConsults(rule, policy) ==
  IF ~appliesTo(rule, policy) THEN <<"appliesTo">> ELSE <<"appliesTo", "validate">>

\* BusinessRule.execute: <<>> stands for null, <<e>> for the error e
execute(rule, policy, rowNumber) ==
  IF ~appliesTo(rule, policy) THEN <<>>
  ELSE IF ~ruleValidate(rule, policy)
       THEN <<ValidationError(rowNumber, rule.field, rule.errorCode, rule.errorMessage)>>
       ELSE <<>>

\* the rules the RuleEngine constructor registers, in registration order
rules == <<PropertyMinInsuredValueRule, AutoMinInsuredValueRule>>

\* mutant: the loop over the rules ends at the first error
RECURSIVE RunRulesToFirstError(_, _, _)
RunRulesToFirstError(rs, policy, rowNumber) ==
  IF rs = <<>> THEN <<>>
  ELSE IF execute(Head(rs), policy, rowNumber) # <<>>
       THEN execute(Head(rs), policy, rowNumber)
       ELSE RunRulesToFirstError(Tail(rs), policy, rowNumber)

\* the loop of RuleEngine.validate over the registered rules rs
RECURSIVE RunRules(_, _, _)
RunRules(rs, policy, rowNumber) ==
  IF rs = <<>> THEN <<>>
  ELSE execute(Head(rs), policy, rowNumber) \o RunRules(Tail(rs), policy, rowNumber)

\* mutant: the engine reports no violation
ruleEngineValidateNothing(policy, rowNumber) == <<>>

\* RuleEngine.validate
ruleEngineValidate(policy, rowNumber) == RunRules(rules, policy, rowNumber)

\* mutant: the rule registered takes the place of the rules held
registerRuleAlone(rs, rule) == <<rule>>

\* registerRule on an engine holding the rules rs
registerRule(rs, rule) == Append(rs, rule)

\* mutant: an item with errors is kept among the valid ones as well
RECURSIVE validateBatchKeepsInvalid(_, _)
validateBatchKeepsInvalid(rs, items) ==
  IF items = <<>> THEN [valid |-> <<>>, invalid |-> <<>>, allErrors |-> <<>>]
  ELSE LET item == items[Len(items)]
           rest == validateBatchKeepsInvalid(rs, SubSeq(items, 1, Len(items) - 1))
           errors == RunRules(rs, item.policy, item.rowNumber)
       IN  IF Len(errors) = 0
           THEN [rest EXCEPT !.valid = Append(@, item)]
           ELSE [rest EXCEPT !.valid = Append(@, item),
                             !.invalid = Append(@, item @@ [errors |-> errors]),
                             !.allErrors = @ \o errors]

\* RuleEngine.validateBatch on an engine holding the rules rs: the result
\* for the items before the last, then the last item
RECURSIVE validateBatch(_, _)
validateBatch(rs, items) ==
  IF items = <<>> THEN [valid |-> <<>>, invalid |-> <<>>, allErrors |-> <<>>]
  ELSE LET item == items[Len(items)]
           rest == validateBatch(rs, SubSeq(items, 1, Len(items) - 1))
           errors == RunRules(rs, item.policy, item.rowNumber)
       IN  IF Len(errors) = 0
           THEN [rest EXCEPT !.valid = Append(@, item)]
           ELSE [rest EXCEPT !.invalid = Append(@, item @@ [errors |-> errors]),
                             !.allErrors = @ \o errors]


(***************************************************************************)
(* The CSV file and its parser (csv-parse/sync with columns, trim and      *)
(* skip_empty_lines).  A line of the file after the header is blank or     *)
(* holds the eight cells of a row.                                         *)
(***************************************************************************)
d_2024_01_01 == <<"2", "0", "2", "4", "-", "0", "1", "-", "0", "1">>
d_2024_12_31 == <<"2", "0", "2", "4", "-", "1", "2", "-", "3", "1">>
d_2025_01_01 == <<"2", "0", "2", "5", "-", "0", "1", "-", "0", "1">>

BlankLine == [blank |-> TRUE]
RowLine(cells) == [blank |-> FALSE, cells |-> cells]

\* valid Property row at the minimum insured value; its key has a leading blank
LineA ==
  RowLine([policy_number |-> <<" ", "P", "1">>, customer |-> <<"A", "n", "n">>,
           policy_type |-> s_Property, start_date |-> d_2024_01_01,
           end_date |-> d_2024_12_31, premium_usd |-> <<"1", "0", "0">>,
           status |-> s_active, insured_value_usd |-> <<"5", "0", "0", "0">>])
\* valid Auto row with the key of LineA and other values in every other field
LineB ==
  RowLine([policy_number |-> <<"P", "1">>, customer |-> <<"B", "o", "b">>,
           policy_type |-> s_Auto, start_date |-> d_2024_12_31,
           end_date |-> d_2025_01_01, premium_usd |-> <<"2", "0", "0">>,
           status |-> s_expired, insured_value_usd |-> <<"1", "0", "0", "0", "0">>])
\* Auto row below the Auto minimum: one business error
LineC ==
  RowLine([policy_number |-> <<"P", "2">>, customer |-> <<"C", "y">>,
           policy_type |-> s_Auto, start_date |-> d_2024_01_01,
           end_date |-> d_2024_12_31, premium_usd |-> <<"5", "0">>,
           status |-> s_active, insured_value_usd |-> <<"9", "9", "9", "9">>])
\* every check fails: eight technical errors
LineD ==
  RowLine([policy_number |-> <<>>, customer |-> <<" ">>,
           policy_type |-> <<"a", "u", "t", "o">>, start_date |-> <<"b", "a", "d">>,
           end_date |-> <<>>, premium_usd |-> <<"a", "b", "c">>,
           status |-> <<"A", "c", "t", "i", "v", "e">>,
           insured_value_usd |-> <<"-", "1">>])
\* valid Life row with premium and insured value zero
LineE ==
  RowLine([policy_number |-> <<"P", "2">>, customer |-> <<"E", "v", "e", " ">>,
           policy_type |-> s_Life, start_date |-> d_2024_01_01,
           end_date |-> d_2025_01_01, premium_usd |-> <<"0">>,
           status |-> s_cancelled, insured_value_usd |-> <<"0">>])
\* start_date = end_date on a Property row below the Property minimum, with
\* the key of LineA: one technical error
LineF ==
  RowLine([policy_number |-> <<"P", "1">>, customer |-> <<"F", "a", "y">>,
           policy_type |-> s_Property, start_date |-> d_2024_01_01,
           end_date |-> d_2024_01_01, premium_usd |-> <<"1", "0", "0">>,
           status |-> s_active, insured_value_usd |-> <<"4", "9", "9", "9">>])

LineSymbols == {BlankLine, LineA, LineB, LineC, LineD, LineE, LineF}

RECURSIVE SeqsUpTo(_, _)
SeqsUpTo(S, n) ==
  IF n = 0 THEN {<<>>}
  ELSE LET shorter == SeqsUpTo(S, n - 1)
       IN  shorter \cup {Append(q, x) : q \in shorter, x \in S}

RECURSIVE Repeat(_, _)
Repeat(x, n) == IF n = 0 THEN <<>> ELSE <<x>> \o Repeat(x, n - 1)

SmallFiles == SeqsUpTo(LineSymbols, MaxLines)
BulkFiles ==
  {Repeat(LineD, k) \o Repeat(LineC, j) : k \in 0..MaxBulkBad, j \in 0..MaxBulkLow}

\* files of valid lines only, one line longer than the mixed files
ValidLines == {LineA, LineB, LineE}
LongFiles == SeqsUpTo(ValidLines, MaxLines + 1) \ SeqsUpTo(ValidLines, MaxLines)

\* what the client sends: no file, a text the parser rejects, or a CSV text
NoFile == [kind |-> "none"]
GarbledFile == [kind |-> "garbled", parserMessage |-> "Invalid Record Length"]
CsvFile(lines) == [kind |-> "csv", lines |-> lines]
Files ==
  {NoFile, GarbledFile}
  \cup {CsvFile(ls) : ls \in SmallFiles \cup BulkFiles \cup LongFiles}
RetryFiles == {NoFile, GarbledFile} \cup {CsvFile(ls) : ls \in SmallFiles}

\* option trim: every cell is trimmed
TrimCells(cells) == [f \in DOMAIN cells |-> Trim(cells[f])]

\* options columns and skip_empty_lines: one record per non-blank line, in order
RECURSIVE parse(_)
parse(lines) ==
  IF lines = <<>> THEN <<>>
  ELSE IF Head(lines).blank THEN parse(Tail(lines))
       ELSE <<TrimCells(Head(lines).cells)>> \o parse(Tail(lines))

(***************************************************************************)
(* UploadController.upload, steps 5 and 6: the validation loop             *)
(***************************************************************************)
\* mutant: the 0-based index used as the row number
rowNumberZeroBased(i) == i

rowNumberOf(i) == i + 1

Called(name, rowNumber) == [call |-> name, row |-> rowNumber]

\* mutant: no `continue` after the business errors of a row are recorded
ProcessRowKeepsRejected(acc, record, i) ==
  LET rowNumber == rowNumberOf(i)
      technicalErrors == validateTechnical(record, rowNumber)
      policy == parseToPolicy(record)
      businessErrors == ruleEngineValidate(policy, rowNumber)
  IN  IF Len(technicalErrors) > 0
      THEN [acc EXCEPT !.allErrors = @ \o technicalErrors,
                       !.calls = @ \o <<Called("validateTechnical", rowNumber)>>]
      ELSE [acc EXCEPT !.allErrors = @ \o businessErrors,
                       !.validPolicies =
                          @ \o <<[policy |-> policy, rowNumber |-> rowNumber]>>,
                       !.calls = @ \o <<Called("validateTechnical", rowNumber),
                                        Called("parseToPolicy", rowNumber),
                                        Called("ruleEngine.validate", rowNumber)>>]

\* mutant: no `continue` after the technical errors of a row are recorded
ProcessRowValidatesOn(acc, record, i) ==
  LET rowNumber == rowNumberOf(i)
      technicalErrors == validateTechnical(record, rowNumber)
      policy == parseToPolicy(record)
      businessErrors == ruleEngineValidate(policy, rowNumber)
      all == <<Called("validateTechnical", rowNumber),
               Called("parseToPolicy", rowNumber),
               Called("ruleEngine.validate", rowNumber)>>
  IN  IF Len(businessErrors) > 0
      THEN [acc EXCEPT !.allErrors = @ \o technicalErrors \o businessErrors,
                       !.calls = @ \o all]
      ELSE [acc EXCEPT !.allErrors = @ \o technicalErrors,
                       !.validPolicies =
                          @ \o <<[policy |-> policy, rowNumber |-> rowNumber]>>,
                       !.calls = @ \o all]

\* mutant: the business errors of a row are not pushed to allErrors
ProcessRowDropsBusinessErrors(acc, record, i) ==
  LET rowNumber == rowNumberOf(i)
      technicalErrors == validateTechnical(record, rowNumber)
      policy == parseToPolicy(record)
      businessErrors == ruleEngineValidate(policy, rowNumber)
      all == <<Called("validateTechnical", rowNumber),
               Called("parseToPolicy", rowNumber),
               Called("ruleEngine.validate", rowNumber)>>
  IN  IF Len(technicalErrors) > 0
      THEN [acc EXCEPT !.allErrors = @ \o technicalErrors,
                       !.calls = @ \o <<Called("validateTechnical", rowNumber)>>]
      ELSE IF Len(businessErrors) > 0
      THEN [acc EXCEPT !.calls = @ \o all]
      ELSE [acc EXCEPT !.validPolicies =
                          @ \o <<[policy |-> policy, rowNumber |-> rowNumber]>>,
                       !.calls = @ \o all]

\* one iteration of the loop over records (i is the 0-based index)
ProcessRow(acc, record, i) ==
  LET rowNumber == rowNumberOf(i)
      technicalErrors == validateTechnical(record, rowNumber)
      policy == parseToPolicy(record)
      businessErrors == ruleEngineValidate(policy, rowNumber)
  IN  IF Len(technicalErrors) > 0
      THEN [acc EXCEPT !.allErrors = @ \o technicalErrors,
                       !.calls = @ \o <<Called("validateTechnical", rowNumber)>>]
      ELSE IF Len(businessErrors) > 0
      THEN [acc EXCEPT !.allErrors = @ \o businessErrors,
                       !.calls = @ \o <<Called("validateTechnical", rowNumber),
                                        Called("parseToPolicy", rowNumber),
                                        Called("ruleEngine.validate", rowNumber)>>]
      ELSE [acc EXCEPT !.validPolicies =
                          @ \o <<[policy |-> policy, rowNumber |-> rowNumber]>>,
                       !.calls = @ \o <<Called("validateTechnical", rowNumber),
                                        Called("parseToPolicy", rowNumber),
                                        Called("ruleEngine.validate", rowNumber)>>]

\* mutant: the records taken from the last to the first
RECURSIVE ProcessRowsBackwards(_, _, _)
ProcessRowsBackwards(acc, records, i) ==
  IF i >= Len(records) THEN acc
  ELSE ProcessRow(ProcessRowsBackwards(acc, records, i + 1), records[i + 1], i)

\* the loop over records, from index i on
RECURSIVE ProcessRowsFrom(_, _, _)
ProcessRowsFrom(acc, records, i) ==
  IF i >= Len(records) THEN acc
  ELSE ProcessRowsFrom(ProcessRow(acc, records[i + 1], i), records, i + 1)

ProcessRows(records) ==
  ProcessRowsFrom([allErrors |-> <<>>, validPolicies |-> <<>>, calls |-> <<>>],
                  records, 0)

(***************************************************************************)
(* PolicyService.insertPolicy: INSERT ... ON CONFLICT (policy_number) DO   *)
(* UPDATE.  The policies table is the set of its rows; id and created_at   *)
(* are assigned by the database and not modelled.                          *)
(***************************************************************************)
Conflicting(table, policy) ==
  {p \in table : p.policy_number = policy.policy_number}

\* mutant: the xmax test read the wrong way round
wasUpdatedInverted(table, policy) == Conflicting(table, policy) = {}

\* was_updated = !(xmax = 0)
wasUpdated(table, policy) == Conflicting(table, policy) # {}

\* mutant: ON CONFLICT DO NOTHING, the stored row is kept
insertPolicyKeepsStored(table, policy) ==
  IF Conflicting(table, policy) # {} THEN table ELSE table \cup {policy}

\* mutant: a plain INSERT with no unique key on policy_number
insertPolicyWithoutConflict(table, policy) == table \cup {policy}

insertPolicy(table, policy) ==
  (table \ Conflicting(table, policy)) \cup {policy}

\* mutant: a policy number is listed once, however often it is updated
tallyDistinct(locals, policy, was_updated) ==
  IF was_updated
  THEN [locals EXCEPT
          !.updatedCount = @ + 1,
          !.updatedPolicyNumbers =
             IF \E i \in 1..Len(@) : @[i] = policy.policy_number THEN @
             ELSE Append(@, policy.policy_number)]
  ELSE [locals EXCEPT !.insertedCount = @ + 1]

\* UploadController.upload, step 7: the counting of one insertPolicy result
tally(locals, policy, was_updated) ==
  IF was_updated
  THEN [locals EXCEPT !.updatedCount = @ + 1,
                      !.updatedPolicyNumbers = Append(@, policy.policy_number)]
  ELSE [locals EXCEPT !.insertedCount = @ + 1]

(***************************************************************************)
(* OperationService                                                        *)
(***************************************************************************)
NULL == [kind |-> "null"]
\* JSON.stringify of a list of errors
JSONstringify(v) == [kind |-> "json", value |-> v]
\* an Error message: the concatenation of its parts
Message(parts) == [kind |-> "text", value |-> parts]
\* Date.now() - startTime: some number of milliseconds
Elapsed == [kind |-> "ms"]

\* the row INSERTed by createOperation, with the column defaults
createOperation ==
  [status |-> "RECEIVED", rows_inserted |-> 0, rows_updated |-> 0,
   rows_rejected |-> 0, duration_ms |-> NULL, error_summary |-> NULL]

\* the columns updateOperation writes when the update names them
UpdatedColumns ==
  {"status", "rows_inserted", "rows_rejected", "duration_ms", "error_summary"}

\* mutant: the status is not among the columns written
updateOperationKeepsStatus(operation, updates) ==
  [f \in DOMAIN operation |->
     IF f \in UpdatedColumns \ {"status"} /\ f \in DOMAIN updates THEN updates[f]
     ELSE operation[f]]

updateOperation(operation, updates) ==
  [f \in DOMAIN operation |->
     IF f \in UpdatedColumns /\ f \in DOMAIN updates THEN updates[f]
     ELSE operation[f]]

(***************************************************************************)
(* UploadController.upload, steps 9 to 11                                  *)
(***************************************************************************)
SUMMARY_LIMIT == 50

\* mutant: the whole error list is stored
SliceAll(errs) == errs

\* allErrors.slice(0, 50)
Slice(errs) ==
  SubSeq(errs, 1, IF Len(errs) < SUMMARY_LIMIT THEN Len(errs) ELSE SUMMARY_LIMIT)

errorSummary(allErrors) ==
  IF Len(allErrors) > 0 THEN JSONstringify(Slice(allErrors)) ELSE NULL

completedUpdate(insertedCount, updatedCount, allErrors) ==
  [status |-> "COMPLETED",
   rows_inserted |-> insertedCount,
   rows_updated |-> updatedCount,
   rows_rejected |-> Len(allErrors),
   duration_ms |-> Elapsed,
   error_summary |-> errorSummary(allErrors)]

\* mutant: the rejected rows counted as before updates were tracked
rejectedCountWithoutUpdates(totalRows, insertedCount, updatedCount) ==
  totalRows - insertedCount

rejectedCountOf(totalRows, insertedCount, updatedCount) ==
  totalRows - insertedCount - updatedCount

\* mutant: the full-rejection test made before the full-success test
statusCodeRejectionFirst(rejectedCount, totalRows) ==
  IF rejectedCount = totalRows THEN 422
  ELSE IF rejectedCount = 0 THEN 200
  ELSE 207

\* mutant: no status of its own for a fully rejected batch
statusCodeWithoutRejection(rejectedCount, totalRows) ==
  IF rejectedCount = 0 THEN 200 ELSE 207

statusCodeOf(rejectedCount, totalRows) ==
  IF rejectedCount = 0 THEN 200
  ELSE IF rejectedCount = totalRows THEN 422
  ELSE 207


(***************************************************************************)
(* State                                                                   *)
(***************************************************************************)
VARIABLES
  file,        \* the upload the client sends (the same one each time)
  requests,    \* how many times the client sends it
  policies,    \* the policies table
  operations,  \* the operations table: operation id -> row
  up,          \* per request: the position and the locals of upload()
  responses,   \* the HTTP responses sent, in order
  policies0,   \* history: the policies table at the start
  calls,       \* history: the calls made on the services, in order
  snapshot,    \* history: the policies table when each response was sent
  probe,       \* the arguments of a service called directly, outside upload()
  verdict      \* what the service returned for the probe

vars ==
  <<file, requests, policies, operations, up, responses, policies0, calls, snapshot,
    probe, verdict>>

\* the policies rows that an earlier upload of a line of the model stores
StorablePolicies ==
  {parseToPolicy(r) : r \in
     {q \in {TrimCells(l.cells) : l \in LineSymbols \ {BlankLine}} :
        /\ validateTechnical(q, 1) = <<>>
        /\ ruleEngineValidate(parseToPolicy(q), 1) = <<>>}}

UniqueKeys(table) ==
  \A p, q \in table : p.policy_number = q.policy_number => p = q

InitialTables == {t \in SUBSET StorablePolicies : UniqueKeys(t)}

\* the locals of upload() before the handler runs
Idle ==
  [pc |-> "idle", records |-> <<>>, allErrors |-> <<>>, validPolicies |-> <<>>,
   next |-> 0, insertedCount |-> 0, updatedCount |-> 0,
   updatedPolicyNumbers |-> <<>>, errorMessage |-> NULL]

\* no record is given to the validators directly
NoProbe == [kind |-> "none"]
NoVerdict == [step |-> "none"]

\* one upload of any file into a table that earlier uploads have filled
Init ==
  /\ file \in Files
  /\ requests = 1
  /\ policies \in InitialTables
  /\ policies0 = policies
  /\ operations = <<>>
  /\ up = [u \in Uploads |-> Idle]
  /\ responses = <<>>
  /\ calls = <<>>
  /\ snapshot = [u \in Uploads |-> {}]
  /\ probe = NoProbe
  /\ verdict = NoVerdict

\* a mixed file sent NumUploads times, one request after the other, into an
\* empty table
InitRetry ==
  /\ file \in RetryFiles
  /\ requests = NumUploads
  /\ policies = {}
  /\ policies0 = policies
  /\ operations = <<>>
  /\ up = [u \in Uploads |-> Idle]
  /\ responses = <<>>
  /\ calls = <<>>
  /\ snapshot = [u \in Uploads |-> {}]
  /\ probe = NoProbe
  /\ verdict = NoVerdict

Finished(u) == up[u].pc \in {"done", "rejected"}

\* the call of upload u on a service
Call(u, c) == [upload |-> u] @@ c

RECURSIVE CallsOf(_, _)
CallsOf(u, cs) ==
  IF cs = <<>> THEN <<>> ELSE <<Call(u, Head(cs))>> \o CallsOf(u, Tail(cs))

\* the message of the error a rejected query of the operations table carries
DbError == Message(<<"database error">>)
\* the message of the error a rejected insertPolicy carries
InsertError == Message(<<"insert failed">>)

\* req.correlationId of request u
correlationIdOf(u) == [kind |-> "correlation", request |-> u]

\* mutant: without the file check, reading req.file.buffer throws
noFileErrorFromBuffer ==
  Message(<<"Cannot read properties of undefined (reading 'buffer')">>)

\* the Error thrown when the request holds no file
noFileError == Message(<<"No file uploaded. Please send a CSV file.">>)

\* mutant: the parser's error rethrown as it is
parseFailureRethrown(parserMessage) == Message(<<parserMessage>>)

\* the Error thrown when csv-parse throws
parseFailure(parserMessage) == Message(<<"Failed to parse CSV: ", parserMessage>>)

\* mutant: the counters of the batch sent with the error
errorBodyWithCounts(u, errorMessage) ==
  [operation_id |-> u, correlation_id |-> correlationIdOf(u), error |-> errorMessage,
   inserted_count |-> up[u].insertedCount, updated_count |-> up[u].updatedCount]

\* the body sent with status 500
errorBody(u, errorMessage) ==
  [operation_id |-> u, correlation_id |-> correlationIdOf(u), error |-> errorMessage]

\* a resolved call on OperationService, as recorded in calls
Created(u) == Call(u, [call |-> "createOperation", status |-> createOperation.status])
Updated(u, status) == Call(u, [call |-> "updateOperation", status |-> status])
\* a rejected updateOperation call, as recorded in calls
UpdateRejected(u, status) ==
  Call(u, [call |-> "updateOperation rejected", status |-> status])

Respond(u, statusCode, body) ==
  /\ responses' = Append(responses, [upload |-> u, status |-> statusCode, body |-> body])
  /\ snapshot' = [snapshot EXCEPT ![u] = policies]

(***************************************************************************)
(* UploadController.upload, one action per stretch between two awaits.     *)
(* The client sends its requests one after the other.                      *)
(***************************************************************************)
\* step 1: createOperation resolves
CreateOperation(u) ==
  /\ up[u].pc = "idle"
  /\ u <= requests
  /\ \A v \in Uploads : v < u => Finished(v)
  /\ operations' = (u :> createOperation) @@ operations
  /\ up' = [up EXCEPT ![u].pc = "created"]
  /\ calls' = Append(calls, Created(u))
  /\ UNCHANGED <<probe, verdict, file, requests, policies, responses, policies0, snapshot>>

\* step 1: createOperation rejects; upload() rejects before its try block
CreateOperationFails(u) ==
  /\ up[u].pc = "idle"
  /\ u <= requests
  /\ \A v \in Uploads : v < u => Finished(v)
  /\ up' = [up EXCEPT ![u].pc = "rejected"]
  /\ UNCHANGED <<probe, verdict, file, requests, policies, operations, responses, policies0, calls, snapshot>>

\* steps 2 to 6: the update to PROCESSING resolves, then the file check, the
\* parse and the validation loop run without an await
Process(u) ==
  /\ up[u].pc = "created"
  /\ operations' = [operations EXCEPT
                      ![u] = updateOperation(@, [status |-> "PROCESSING"])]
  /\ IF file.kind = "none"
     THEN /\ up' = [up EXCEPT
                      ![u].pc = "catch",
                      ![u].errorMessage = noFileError]
          /\ calls' = Append(calls, Updated(u, "PROCESSING"))
     ELSE IF file.kind = "garbled"
     THEN /\ up' = [up EXCEPT
                      ![u].pc = "catch",
                      ![u].errorMessage = parseFailure(file.parserMessage)]
          /\ calls' = calls \o <<Updated(u, "PROCESSING"), Call(u, [call |-> "parse"])>>
     ELSE LET records == parse(file.lines)
              result == ProcessRows(records)
          IN  /\ up' = [up EXCEPT
                          ![u].pc = "persist",
                          ![u].records = records,
                          ![u].allErrors = result.allErrors,
                          ![u].validPolicies = result.validPolicies]
              /\ calls' = calls \o <<Updated(u, "PROCESSING"), Call(u, [call |-> "parse"])>>
                                \o CallsOf(u, result.calls)
  /\ UNCHANGED <<probe, verdict, file, requests, policies, responses, policies0, snapshot>>

\* step 2: the update to PROCESSING rejects
ProcessUpdateFails(u) ==
  /\ up[u].pc = "created"
  /\ up' = [up EXCEPT ![u].pc = "catch", ![u].errorMessage = DbError]
  /\ calls' = Append(calls, UpdateRejected(u, "PROCESSING"))
  /\ UNCHANGED <<probe, verdict, file, requests, policies, operations, responses, policies0, snapshot>>

\* step 7: insertPolicy resolves for the next valid policy
InsertPolicy(u) ==
  /\ up[u].pc = "persist"
  /\ up[u].next < Len(up[u].validPolicies)
  /\ LET item == up[u].validPolicies[up[u].next + 1]
         was_updated == wasUpdated(policies, item.policy)
     IN  /\ policies' = insertPolicy(policies, item.policy)
         /\ up' = [up EXCEPT ![u] = [tally(@, item.policy, was_updated)
                                        EXCEPT !.next = @ + 1]]
         /\ calls' = Append(calls,
                       Call(u, [call |-> "insertPolicy", row |-> item.rowNumber,
                                policy |-> item.policy, was_updated |-> was_updated]))
  /\ UNCHANGED <<probe, verdict, file, requests, operations, responses, policies0, snapshot>>

\* step 7: insertPolicy rejects; the table is not changed
InsertPolicyFails(u) ==
  /\ up[u].pc = "persist"
  /\ up[u].next < Len(up[u].validPolicies)
  /\ up' = [up EXCEPT ![u].pc = "catch", ![u].errorMessage = InsertError]
  /\ calls' = Append(calls,
                Call(u, [call |-> "insertPolicy rejected",
                         row |-> up[u].validPolicies[up[u].next + 1].rowNumber]))
  /\ UNCHANGED <<probe, verdict, file, requests, policies, operations, responses, policies0, snapshot>>

\* steps 8 to 11: the update to COMPLETED resolves and the response is sent
Complete(u) ==
  /\ up[u].pc = "persist"
  /\ up[u].next = Len(up[u].validPolicies)
  /\ operations' = [operations EXCEPT
       ![u] = updateOperation(@, completedUpdate(up[u].insertedCount,
                                                 up[u].updatedCount,
                                                 up[u].allErrors))]
  /\ LET rejectedCount == rejectedCountOf(Len(up[u].records), up[u].insertedCount,
                                          up[u].updatedCount)
     IN  Respond(u, statusCodeOf(rejectedCount, Len(up[u].records)),
                 [operation_id |-> u,
                  correlation_id |-> correlationIdOf(u),
                  inserted_count |-> up[u].insertedCount,
                  updated_count |-> up[u].updatedCount,
                  rejected_count |-> rejectedCount,
                  errors |-> up[u].allErrors,
                  updated_policies |-> up[u].updatedPolicyNumbers])
  /\ up' = [up EXCEPT ![u].pc = "done"]
  /\ calls' = Append(calls, Updated(u, "COMPLETED"))
  /\ UNCHANGED <<probe, verdict, file, requests, policies, policies0>>

\* step 9: the update to COMPLETED rejects
CompleteUpdateFails(u) ==
  /\ up[u].pc = "persist"
  /\ up[u].next = Len(up[u].validPolicies)
  /\ up' = [up EXCEPT ![u].pc = "catch", ![u].errorMessage = DbError]
  /\ calls' = Append(calls, UpdateRejected(u, "COMPLETED"))
  /\ UNCHANGED <<probe, verdict, file, requests, policies, operations, responses, policies0, snapshot>>

\* step 12: the update to FAILED resolves and the error response is sent
Fail(u) ==
  /\ up[u].pc = "catch"
  /\ operations' = [operations EXCEPT
       ![u] = updateOperation(@, [status |-> "FAILED", duration_ms |-> Elapsed,
                                  error_summary |-> up[u].errorMessage])]
  /\ Respond(u, 500, errorBody(u, up[u].errorMessage))
  /\ up' = [up EXCEPT ![u].pc = "done"]
  /\ calls' = Append(calls, Updated(u, "FAILED"))
  /\ UNCHANGED <<probe, verdict, file, requests, policies, policies0>>

\* step 12: the update to FAILED rejects; upload() rejects without a response
FailUpdateFails(u) ==
  /\ up[u].pc = "catch"
  /\ up' = [up EXCEPT ![u].pc = "rejected"]
  /\ calls' = Append(calls, UpdateRejected(u, "FAILED"))
  /\ UNCHANGED <<probe, verdict, file, requests, policies, operations, responses, policies0, snapshot>>

Next ==
  \E u \in Uploads :
    \/ CreateOperation(u)
    \/ CreateOperationFails(u)
    \/ Process(u)
    \/ ProcessUpdateFails(u)
    \/ InsertPolicy(u)
    \/ InsertPolicyFails(u)
    \/ Complete(u)
    \/ CompleteUpdateFails(u)
    \/ Fail(u)
    \/ FailUpdateFails(u)

Spec == Init /\ [][Next]_vars

SpecRetry == InitRetry /\ [][Next]_vars

\* the steps of upload u that end an await, Process(u) left out: Process(u)
\* can be taken exactly where ProcessUpdateFails(u) can, and either of
\* them ends that await
Settles(u) ==
  \/ CreateOperation(u)
  \/ CreateOperationFails(u)
  \/ ProcessUpdateFails(u)
  \/ InsertPolicy(u)
  \/ InsertPolicyFails(u)
  \/ Complete(u)
  \/ CompleteUpdateFails(u)
  \/ Fail(u)
  \/ FailUpdateFails(u)

\* every await of upload() settles: a call on the database resolves or
\* rejects, so no handler waits for ever at an await
SpecSettles ==
  InitRetry /\ [][Next]_vars /\ \A u \in Uploads : WF_vars(Settles(u))

(***************************************************************************)
(* Concurrent uploads: a request arrives while earlier ones are in their   *)
(* loop of upserts.  Each insertPolicy is one INSERT ... ON CONFLICT        *)
(* statement, which the database runs atomically; the handlers interleave  *)
(* at their awaits.  file is the file of the request that arrived last: a  *)
(* handler reads it in Process only.                                       *)
(***************************************************************************)
\* the files of one to MaxLines valid lines, no line twice
ConcurrentFiles ==
  {CsvFile(ls) : ls \in
     {q \in SeqsUpTo(ValidLines, MaxLines) \ {<<>>} :
        \A i, j \in 1..Len(q) : q[i] = q[j] => i = j}}

\* two requests
InitConcurrent ==
  /\ file \in ConcurrentFiles
  /\ requests = 2
  /\ policies = {}
  /\ policies0 = policies
  /\ operations = <<>>
  /\ up = [u \in Uploads |-> Idle]
  /\ responses = <<>>
  /\ calls = <<>>
  /\ snapshot = [u \in Uploads |-> {}]
  /\ probe = NoProbe
  /\ verdict = NoVerdict

\* step 1 of a request that arrives with file f while an earlier request is
\* in flight and every earlier request has read its own file
SendConcurrently(u, f) ==
  /\ up[u].pc = "idle"
  /\ u <= requests
  /\ \A v \in Uploads : v < u => up[v].pc \notin {"idle", "created"}
  /\ \E v \in Uploads : v < u /\ ~Finished(v)
  /\ file' = f
  /\ operations' = (u :> createOperation) @@ operations
  /\ up' = [up EXCEPT ![u].pc = "created"]
  /\ calls' = Append(calls, Created(u))
  /\ UNCHANGED <<probe, verdict, requests, policies, responses, policies0, snapshot>>

\* the steps in which the database call resolves: a call that rejects
\* leaves the table and the counts as they are and ends the handler's
\* upserts, so what it leads to is a state of the table and the counts that
\* these steps pass through
NextConcurrent ==
  \E u \in Uploads :
    \/ CreateOperation(u)
    \/ \E f \in ConcurrentFiles : SendConcurrently(u, f)
    \/ Process(u)
    \/ InsertPolicy(u)
    \/ Complete(u)

SpecConcurrent == InitConcurrent /\ [][NextConcurrent]_vars

(***************************************************************************)
(* The validators called on one record, as upload() calls them for a row:  *)
(* validateTechnical, then parseToPolicy and RuleEngine.validate for a     *)
(* record without technical errors.  The cells of the record are drawn     *)
(* independently, so every combination of passing and failing checks       *)
(* occurs.                                                                 *)
(***************************************************************************)
t_bad == <<"b", "a", "d">>
t_Active == <<"A", "c", "t", "i", "v", "e">>
t_auto == <<"a", "u", "t", "o">>

PolicyNumberTexts == {<<>>, <<"P", "1">>}
CustomerTexts == {<<" ">>, <<"A", "n", "n">>}
StartDateTexts == {d_2024_01_01, d_2024_12_31, t_bad}
EndDateTexts == {d_2024_01_01, d_2024_12_31, <<>>}
StatusTexts == {s_active, t_Active}
PolicyTypeTexts == VALID_POLICY_TYPES \cup {t_auto}
PremiumTexts ==
  {<<"0">>, <<"-", "1">>, <<"a", "b", "c">>, <<"1", "0", "0", "a", "b", "c">>, <<>>}
InsuredValueTexts ==
  {<<"4", "9", "9", "9">>, <<"5", "0", "0", "0">>, <<"9", "9", "9", "9">>,
   <<"1", "0", "0", "0", "0">>, <<"-", "1">>, <<"a", "b", "c">>}

ProbeInputs ==
  [policy_number : PolicyNumberTexts, customer : CustomerTexts,
   policy_type : PolicyTypeTexts, start_date : StartDateTexts,
   end_date : EndDateTexts, premium_usd : PremiumTexts,
   status : StatusTexts, insured_value_usd : InsuredValueTexts]

InitValidate ==
  /\ probe \in [kind : {"record"}, input : ProbeInputs, rowNumber : 1..MaxLines]
  /\ verdict = NoVerdict
  /\ file = NoFile
  /\ requests = 0
  /\ policies = {}
  /\ policies0 = {}
  /\ operations = <<>>
  /\ up = [u \in Uploads |-> Idle]
  /\ responses = <<>>
  /\ calls = <<>>
  /\ snapshot = [u \in Uploads |-> {}]

\* validationService.validateTechnical(record, rowNumber)
CallValidateTechnical ==
  /\ probe.kind = "record"
  /\ verdict.step = "none"
  /\ verdict' = [step |-> "technical",
                 errors |-> validateTechnical(probe.input, probe.rowNumber)]
  /\ UNCHANGED <<probe, file, requests, policies, operations, up, responses,
                 policies0, calls, snapshot>>

\* validationService.parseToPolicy(record), then ruleEngine.validate(policy,
\* rowNumber), for a record without technical errors
CallRuleEngine ==
  /\ verdict.step = "technical"
  /\ Len(verdict.errors) = 0
  /\ LET policy == parseToPolicy(probe.input)
     IN  verdict' = [step |-> "business", policy |-> policy,
                     errors |-> ruleEngineValidate(policy, probe.rowNumber)]
  /\ UNCHANGED <<probe, file, requests, policies, operations, up, responses,
                 policies0, calls, snapshot>>

NextValidate == CallValidateTechnical \/ CallRuleEngine

SpecValidate == InitValidate /\ [][NextValidate]_vars

(***************************************************************************)
(* PolicyService.findAll, called on a table of rows numbered from the      *)
(* newest (ORDER BY created_at DESC).  The filters on status, policy_type  *)
(* and q are not given.                                                    *)
(***************************************************************************)
DEFAULT_LIMIT == 25
MAX_LIMIT == 100

\* a property that the filters object does not hold
Undefined == [nan |-> FALSE, undefined |-> TRUE, val |-> 0]
Defined(v) == [nan |-> FALSE, undefined |-> FALSE, val |-> v]
NotANumber == [nan |-> TRUE, undefined |-> FALSE, val |-> 0]

\* x || d on a number that may be undefined: undefined, NaN and 0 are falsy
OrElse(x, d) == IF x.undefined \/ x.nan \/ x.val = 0 THEN d ELSE x.val

Min(a, b) == IF a < b THEN a ELSE b

\* mutant: the default applied without the cap
findAllLimitUncapped(filters) == OrElse(filters.limit, DEFAULT_LIMIT)

\* const limit = Math.min(filters.limit || 25, 100)
findAllLimit(filters) == Min(OrElse(filters.limit, DEFAULT_LIMIT), MAX_LIMIT)

\* const offset = filters.offset || 0
findAllOffset(filters) == OrElse(filters.offset, 0)

\* SELECT ... LIMIT limit OFFSET offset on rows
Page(rows, limit, offset) ==
  SubSeq(rows, offset + 1, Min(offset + limit, Len(rows)))

RequestedLimits ==
  {Undefined, NotANumber}
  \cup {Defined(v) : v \in {0 - 1, 0, 1, 25, 50, 99, 100, 101, 200}}
RequestedOffsets == {Undefined, NotANumber} \cup {Defined(v) : v \in {0, 1, 20, 110}}
StoredCounts == {0, 30, 120}

InitFind ==
  /\ probe \in [kind : {"findAll"},
                 filters : [limit : RequestedLimits, offset : RequestedOffsets],
                 rows : {[i \in 1..n |-> i] : n \in StoredCounts}]
  /\ verdict = NoVerdict
  /\ file = NoFile
  /\ requests = 0
  /\ policies = {}
  /\ policies0 = {}
  /\ operations = <<>>
  /\ up = [u \in Uploads |-> Idle]
  /\ responses = <<>>
  /\ calls = <<>>
  /\ snapshot = [u \in Uploads |-> {}]

\* findAll resolves
CallFindAll ==
  /\ probe.kind = "findAll"
  /\ verdict.step = "none"
  /\ LET limit == findAllLimit(probe.filters)
         offset == findAllOffset(probe.filters)
     IN  /\ limit >= 0
         /\ verdict' = [step |-> "found",
                        query |-> [limit |-> limit, offset |-> offset],
                        items |-> Page(probe.rows, limit, offset),
                        pagination |-> [limit |-> limit, offset |-> offset,
                                        total |-> Len(probe.rows)]]
  /\ UNCHANGED <<probe, file, requests, policies, operations, up, responses,
                 policies0, calls, snapshot>>

\* findAll rejects: the database refuses a negative LIMIT
CallFindAllRejected ==
  /\ probe.kind = "findAll"
  /\ verdict.step = "none"
  /\ LET limit == findAllLimit(probe.filters)
         offset == findAllOffset(probe.filters)
     IN  /\ limit < 0
         /\ verdict' = [step |-> "rejected",
                        query |-> [limit |-> limit, offset |-> offset]]
  /\ UNCHANGED <<probe, file, requests, policies, operations, up, responses,
                 policies0, calls, snapshot>>

NextFind == CallFindAll \/ CallFindAllRejected

SpecFind == InitFind /\ [][NextFind]_vars

(***************************************************************************)
(* A RuleEngine used directly: rules are registered on it after its        *)
(* construction, and validate, validateBatch and the rules' execute are    *)
(* called on a batch of normalized policies.                               *)
(***************************************************************************)
\* the rules a user registers: two that always fail for Property policies,
\* one that always fails for Life policies
TestRules ==
  {TestRule(s_Property, "TEST_RULE"), TestRule(s_Property, "OTHER_RULE"),
   TestRule(s_Life, "TEST_RULE")}

\* normalized policies: Property at and below its minimum, Auto at and
\* below its minimum, Life
ProbePolicies ==
  {parseToPolicy(TrimCells(l.cells)) : l \in {LineA, LineB, LineC, LineE, LineF}}

\* the batches: up to two policies, or three with the first repeated at
\* the end, numbered by their position
ProbeBatches ==
  {[i \in 1..Len(ps) |-> [policy |-> ps[i], rowNumber |-> i]] :
     ps \in SeqsUpTo(ProbePolicies, 2)
             \cup {<<p, q, p>> : p \in ProbePolicies, q \in ProbePolicies}}

InitRules ==
  /\ probe \in [kind : {"engine"}, rules : {rules}, items : ProbeBatches]
  /\ verdict = NoVerdict
  /\ file = NoFile
  /\ requests = 0
  /\ policies = {}
  /\ policies0 = {}
  /\ operations = <<>>
  /\ up = [u \in Uploads |-> Idle]
  /\ responses = <<>>
  /\ calls = <<>>
  /\ snapshot = [u \in Uploads |-> {}]

\* ruleEngine.registerRule(rule)
RegisterRule(rule) ==
  /\ probe.kind = "engine"
  /\ Len(probe.rules) < Len(rules) + MaxRegistered
  /\ probe' = [probe EXCEPT !.rules = registerRule(@, rule)]
  /\ UNCHANGED <<verdict, file, requests, policies, operations, up, responses,
                 policies0, calls, snapshot>>

\* ruleEngine.validate(policy, rowNumber) for each item of the batch; the
\* result of the call before it is remembered
CallValidate ==
  /\ probe.kind = "engine"
  /\ verdict' =
       [step |-> "validated",
        rules |-> probe.rules,
        errors |-> [i \in 1..Len(probe.items) |->
                      RunRules(probe.rules, probe.items[i].policy,
                               probe.items[i].rowNumber)],
        earlier |-> IF verdict.step = "validated"
                    THEN [step |-> "validated", rules |-> verdict.rules,
                          errors |-> verdict.errors]
                    ELSE NoVerdict]
  /\ UNCHANGED <<probe, file, requests, policies, operations, up, responses,
                 policies0, calls, snapshot>>

\* ruleEngine.validateBatch(items)
CallValidateBatch ==
  /\ probe.kind = "engine"
  /\ verdict' = [step |-> "batched", rules |-> probe.rules,
                 result |-> validateBatch(probe.rules, probe.items)]
  /\ UNCHANGED <<probe, file, requests, policies, operations, up, responses,
                 policies0, calls, snapshot>>

\* rule.execute(policy, rowNumber) for a registered rule and an item
CallExecute(j, i) ==
  /\ probe.kind = "engine"
  /\ j \in 1..Len(probe.rules)
  /\ i \in 1..Len(probe.items)
  /\ verdict' = [step |-> "executed", rule |-> probe.rules[j], item |-> probe.items[i],
                 result |-> execute(probe.rules[j], probe.items[i].policy,
                                    probe.items[i].rowNumber),
                 consulted |-> executeConsults(probe.rules[j], probe.items[i].policy)]
  /\ UNCHANGED <<probe, file, requests, policies, operations, up, responses,
                 policies0, calls, snapshot>>

NextRules ==
  \/ \E rule \in TestRules : RegisterRule(rule)
  \/ CallValidate
  \/ CallValidateBatch
  \/ \E j \in 1..(Len(rules) + MaxRegistered), i \in 1..3 : CallExecute(j, i)

SpecRules == InitRules /\ [][NextRules]_vars


(***************************************************************************)
(* Vocabulary of the properties                                            *)
(***************************************************************************)
\* the data rows of the file: its non-blank lines, cells trimmed, in order
DataRows == SelectSeq(file.lines, LAMBDA l : ~l.blank)
DataRow(k) == TrimCells(DataRows[k].cells)
TotalRows == Len(DataRows)

\* the validation errors of a data row under row number k
RowErrors(row, k) ==
  IF validateTechnical(row, k) # <<>> THEN validateTechnical(row, k)
  ELSE ruleEngineValidate(parseToPolicy(row), k)

ValidRowNumbers == {k \in 1..TotalRows : RowErrors(DataRow(k), k) = <<>>}
RejectedRowNumbers == (1..TotalRows) \ ValidRowNumbers

RECURSIVE ErrorsOfRows(_)
ErrorsOfRows(n) ==
  IF n = 0 THEN <<>> ELSE ErrorsOfRows(n - 1) \o RowErrors(DataRow(n), n)

\* the uploads whose operation is COMPLETED and whose response is sent
CompletedUploads ==
  {u \in DOMAIN operations : operations[u].status = "COMPLETED" /\ up[u].pc = "done"}

ResponsesOf(u) == SelectSeq(responses, LAMBDA r : r.upload = u)
ResponseOf(u) == ResponsesOf(u)[1]

(***************************************************************************)
(* C1                                                                      *)
(***************************************************************************)
\* C1: in the response of every completed upload, inserted_count +
\* updated_count + rejected_count is the number of data rows of the file,
\* and none of the three counts is negative.
C1_CountsAddUp ==
  \A u \in CompletedUploads :
    LET b == ResponseOf(u).body
    IN  /\ b.inserted_count + b.updated_count + b.rejected_count = TotalRows
        /\ b.inserted_count >= 0
        /\ b.updated_count >= 0
        /\ b.rejected_count >= 0

\* a completed upload that updated a row and rejected another
C1_Witness ==
  \E u \in CompletedUploads :
    /\ ResponseOf(u).body.updated_count > 0
    /\ ResponseOf(u).body.rejected_count > 0

AllRowsRejected(u) ==
  /\ u \in CompletedUploads
  /\ TotalRows > 0
  /\ ValidRowNumbers = {}

InsertCallsOf(u) ==
  SelectSeq(calls, LAMBDA c : c.upload = u /\ c.call = "insertPolicy")

InsertCalls == SelectSeq(calls, LAMBDA c : c.call = "insertPolicy")

\* the table after the insertPolicy calls cs, made in order on table
RECURSIVE Replay(_, _)
Replay(table, cs) ==
  IF cs = <<>> THEN table
  ELSE Replay(insertPolicy(table, Head(cs).policy), Tail(cs))

\* C4: insertPolicy is called only for rows that pass both validations,
\* with the normalized row, in row order and at most once per row; when the
\* upload completes it has been called for every such row, whatever rows
\* were rejected before it; and the policies table changes by these calls
\* only.
C4_UpsertOncePerValidRow ==
  /\ \A u \in Uploads :
       LET ins == InsertCallsOf(u)
       IN  /\ \A i \in 1..Len(ins) :
                /\ ins[i].row \in ValidRowNumbers
                /\ ins[i].policy = parseToPolicy(DataRow(ins[i].row))
           /\ \A i, j \in 1..Len(ins) : i < j => ins[i].row < ins[j].row
           /\ u \in CompletedUploads =>
                {ins[i].row : i \in 1..Len(ins)} = ValidRowNumbers
  /\ policies = Replay(policies0, InsertCalls)

\* a completed upload that upserted a valid row standing after a rejected one
C4_Witness ==
  \E u \in CompletedUploads :
    \E k \in RejectedRowNumbers, m \in ValidRowNumbers :
      /\ k < m
      /\ \E i \in 1..Len(InsertCallsOf(u)) : InsertCallsOf(u)[i].row = m

(***************************************************************************)
(* C5                                                                      *)
(***************************************************************************)
TechnicalCodes ==
  {"REQUIRED_FIELD", "INVALID_DATE_FORMAT", "INVALID_DATE_RANGE",
   "INVALID_STATUS", "INVALID_POLICY_TYPE", "INVALID_NUMBER"}
BusinessCodes == {rules[i].errorCode : i \in 1..Len(rules)}

\* the errors of one row in a list are all technical or all business errors
Unmixed(errs) ==
  /\ \A i \in 1..Len(errs) : errs[i].code \in TechnicalCodes \cup BusinessCodes
  /\ \A i, j \in 1..Len(errs) :
       errs[i].row_number = errs[j].row_number =>
         (errs[i].code \in TechnicalCodes <=> errs[j].code \in TechnicalCodes)

\* what upload u has called for row k
CalledFor(u, name, k) ==
  \E i \in 1..Len(calls) :
    /\ calls[i].upload = u
    /\ calls[i].call = name
    /\ calls[i].row = k

\* C5: the errors collected and reported for a row are never a mix of
\* technical and business errors, and a row with a technical error is
\* neither normalized nor given to the rule engine.
C5_TechnicalOrBusiness ==
  \A u \in Uploads :
    /\ Unmixed(up[u].allErrors)
    /\ u \in CompletedUploads => Unmixed(ResponseOf(u).body.errors)
    /\ file.kind = "csv" =>
         \A k \in 1..TotalRows :
           validateTechnical(DataRow(k), k) # <<>> =>
             /\ u \in CompletedUploads => CalledFor(u, "validateTechnical", k)
             /\ ~CalledFor(u, "parseToPolicy", k)
             /\ ~CalledFor(u, "ruleEngine.validate", k)

\* a reported row with a technical error whose values also break a rule
C5_Witness ==
  \E u \in CompletedUploads :
    \E k \in 1..TotalRows :
      /\ validateTechnical(DataRow(k), k) # <<>>
      /\ ruleEngineValidate(parseToPolicy(DataRow(k)), k) # <<>>
      /\ \E i \in 1..Len(ResponseOf(u).body.errors) :
           ResponseOf(u).body.errors[i].row_number = k

C7_SummaryTruncated ==
  \A u \in CompletedUploads :
    LET errs == ResponseOf(u).body.errors
        n == Len(errs)
    IN  /\ errs = ErrorsOfRows(TotalRows)
        /\ operations[u].error_summary =
             IF n = 0 THEN NULL
             ELSE JSONstringify(SubSeq(errs, 1, IF n < 50 THEN n ELSE 50))

\* a completed upload with more than 50 errors
C7_Witness ==
  \E u \in CompletedUploads :
    /\ Len(ResponseOf(u).body.errors) > 50
    /\ Len(operations[u].error_summary.value) = 50


(***************************************************************************)
(* C8                                                                      *)
(***************************************************************************)
\* C8: when the same file is uploaded twice in a row and both uploads
\* complete, the second reports inserted_count 0 and updated_count the
\* number of valid rows, and the policies table after the second upload is
\* the table after the first.
C8_Idempotent ==
  \A u \in Uploads :
    (u > 1 /\ u \in CompletedUploads /\ (u - 1) \in CompletedUploads) =>
      /\ ResponseOf(u).body.inserted_count = 0
      /\ ResponseOf(u).body.updated_count = Cardinality(ValidRowNumbers)
      /\ snapshot[u] = snapshot[u - 1]

\* the file is uploaded twice, with a valid and a rejected row
C8_Witness ==
  /\ {1, 2} \subseteq CompletedUploads
  /\ ValidRowNumbers # {}
  /\ RejectedRowNumbers # {}
  /\ ResponseOf(2).body.updated_count > 0

(***************************************************************************)
(* C9                                                                      *)
(***************************************************************************)
RowKey(k) == parseToPolicy(DataRow(k)).policy_number
StoredKeys(table) == {p.policy_number : p \in table}

\* the valid rows of the file with the key of row k
RowsWithKeyOf(k) == {m \in ValidRowNumbers : RowKey(m) = RowKey(k)}
FirstOf(S) == CHOOSE m \in S : \A n \in S : m <= n
LastOf(S) == CHOOSE m \in S : \A n \in S : n <= m

\* the insertPolicy call of upload u for row k reported an update
ReportedUpdate(u, k) ==
  \E i \in 1..Len(InsertCallsOf(u)) :
    InsertCallsOf(u)[i].row = k /\ InsertCallsOf(u)[i].was_updated

\* C9: among the valid rows of a file that share a policy_number not
\* stored before the upload, the first is counted as an insert and each
\* later one as an update, and when the upload completes the stored policy
\* of that number holds the values of the last of these rows.
C9_LastRowWins ==
  \A u \in CompletedUploads :
    \A k \in ValidRowNumbers :
      RowKey(k) \notin StoredKeys(policies0) =>
        /\ ReportedUpdate(u, k) <=> k # FirstOf(RowsWithKeyOf(k))
        /\ \A p \in snapshot[u] :
             p.policy_number = RowKey(k) =>
               p = parseToPolicy(DataRow(LastOf(RowsWithKeyOf(k))))
        /\ RowKey(k) \in StoredKeys(snapshot[u])

\* two valid rows with one new key and different values in every other field
C9_Witness ==
  \E u \in CompletedUploads :
    \E k, m \in ValidRowNumbers :
      /\ k < m
      /\ RowKey(k) = RowKey(m)
      /\ RowKey(k) \notin StoredKeys(policies0)
      /\ \A f \in DOMAIN DataRow(k) \ {"policy_number"} :
           parseToPolicy(DataRow(k))[f] # parseToPolicy(DataRow(m))[f]
      /\ ResponseOf(u).body.inserted_count = 1
      /\ ResponseOf(u).body.updated_count = 1

(***************************************************************************)
(* C10                                                                     *)
(***************************************************************************)
UpdateCallsOf(u) == SelectSeq(InsertCallsOf(u), LAMBDA c : c.was_updated)

\* the policy numbers of the rows whose upsert reported an update, in order
UpdatedKeysOf(u) ==
  [i \in 1..Len(UpdateCallsOf(u)) |-> UpdateCallsOf(u)[i].policy.policy_number]

\* the policy numbers of the rows of upload u that were inserted or rejected
InsertedOrRejectedKeys(u) ==
  {RowKey(k) : k \in {m \in ValidRowNumbers : ~ReportedUpdate(u, m)}}
  \cup {DataRow(k).policy_number : k \in RejectedRowNumbers}

\* updated_policies lists the keys of the updated rows in row order,
\* duplicates kept, as many as updated_count
ListsUpdatedRows(u) ==
  LET b == ResponseOf(u).body
  IN  /\ b.updated_policies = UpdatedKeysOf(u)
      /\ Len(b.updated_policies) = b.updated_count

DistinctKeys ==
  \A k, m \in 1..TotalRows :
    Trim(DataRow(k).policy_number) = Trim(DataRow(m).policy_number) => k = m

\* C10 as claimed: updated_policies lists, in row order, the policy_number
\* of each row whose upsert reported an update, so its length is
\* updated_count, and it holds no policy_number of an inserted or rejected
\* row.
C10_NoInsertedOrRejectedKey ==
  \A u \in CompletedUploads :
    /\ ListsUpdatedRows(u)
    /\ \A i \in 1..Len(ResponseOf(u).body.updated_policies) :
         ResponseOf(u).body.updated_policies[i] \notin InsertedOrRejectedKeys(u)

\* C10 amended: updated_policies lists, in row order, the policy_number of
\* each row whose upsert reported an update, so its length is
\* updated_count; it holds no policy_number of an inserted or rejected row
\* when no two data rows of the file share a policy_number.
C10_UpdatedPolicies ==
  \A u \in CompletedUploads :
    /\ ListsUpdatedRows(u)
    /\ DistinctKeys =>
         \A i \in 1..Len(ResponseOf(u).body.updated_policies) :
           ResponseOf(u).body.updated_policies[i] \notin InsertedOrRejectedKeys(u)

\* one stored policy updated by two rows of the file: its number is listed twice
C10_Witness ==
  \E u \in CompletedUploads :
    LET l == ResponseOf(u).body.updated_policies
    IN  Len(l) = 2 /\ l[1] = l[2]

(***************************************************************************)
(* C11                                                                     *)
(***************************************************************************)
\* the calls upload u has made under the given names
CallsNamed(u, names) ==
  SelectSeq(calls, LAMBDA c : c.upload = u /\ c.call \in names)

RowCalls ==
  {"validateTechnical", "parseToPolicy", "ruleEngine.validate",
   "insertPolicy", "insertPolicy rejected"}

\* upload u has given the file to the parser, which threw
ParseFailed(u) ==
  /\ file.kind = "garbled"
  /\ CallsNamed(u, {"parse"}) # <<>>

\* upload() has returned after answering
Answered(u) == up[u].pc = "done"

\* C11: when the parser throws, no row is validated and no upsert is made;
\* when the handler has answered, the operation is FAILED with error_summary
\* 'Failed to parse CSV: ' followed by the parser's message, and the one
\* response has status 500 and a body of operation_id, correlation_id and
\* that error only.
C11_ParseFailureIsFatal ==
  \A u \in Uploads :
    ParseFailed(u) =>
      /\ CallsNamed(u, RowCalls) = <<>>
      /\ policies = policies0
      /\ Answered(u) =>
           LET text == Message(<<"Failed to parse CSV: ", file.parserMessage>>)
           IN  /\ operations[u].status = "FAILED"
               /\ operations[u].error_summary = text
               /\ Len(ResponsesOf(u)) = 1
               /\ ResponseOf(u).status = 500
               /\ ResponseOf(u).body =
                    [operation_id |-> u, correlation_id |-> correlationIdOf(u),
                     error |-> text]

\* an unparseable file answered with 500 while the table holds policies
C11_Witness ==
  \E u \in Uploads :
    /\ ParseFailed(u)
    /\ Answered(u)
    /\ ResponseOf(u).status = 500
    /\ policies # {}

(***************************************************************************)
(* C12                                                                     *)
(***************************************************************************)
\* an insertPolicy call of upload u has rejected
UpsertFailed(u) == CallsNamed(u, {"insertPolicy rejected"}) # <<>>
\* the row whose insertPolicy call rejected
FailedRow(u) == CallsNamed(u, {"insertPolicy rejected"})[1].row

\* C12: when the upsert of a valid row throws, the valid rows before it
\* have been upserted and stay in the table, no row after it is upserted,
\* and when the handler has answered, the operation is FAILED with the
\* exception's message and the one response has status 500 and a body of
\* operation_id, correlation_id and the error only: no counts, no
\* validation errors.
C12_UpsertFailureAborts ==
  \A u \in Uploads :
    UpsertFailed(u) =>
      LET ins == InsertCallsOf(u)
      IN  /\ Len(CallsNamed(u, {"insertPolicy rejected"})) = 1
          /\ FailedRow(u) \in ValidRowNumbers
          /\ {ins[i].row : i \in 1..Len(ins)} =
               {k \in ValidRowNumbers : k < FailedRow(u)}
          /\ policies = Replay(policies0, InsertCalls)
          /\ Answered(u) =>
               /\ operations[u].status = "FAILED"
               /\ operations[u].error_summary = InsertError
               /\ Len(ResponsesOf(u)) = 1
               /\ ResponseOf(u).status = 500
               /\ ResponseOf(u).body =
                    [operation_id |-> u, correlation_id |-> correlationIdOf(u),
                     error |-> InsertError]
               /\ snapshot[u] = Replay(policies0, ins)

\* the upsert of the second of three valid rows throws after the first row
\* was inserted: the answer is 500, the first row is stored, the third is not
C12_Witness ==
  \E u \in Uploads :
    /\ UpsertFailed(u)
    /\ Answered(u)
    /\ FailedRow(u) = 2
    /\ ValidRowNumbers = {1, 2, 3}
    /\ Len(InsertCallsOf(u)) = 1
    /\ ~InsertCallsOf(u)[1].was_updated
    /\ RowKey(1) \in StoredKeys(policies) \ StoredKeys(policies0)
    /\ RowKey(3) \notin StoredKeys(policies)

(***************************************************************************)
(* C13                                                                     *)
(***************************************************************************)
\* the statuses written to the operation of upload u, in order
OperationLog(u) ==
  LET cs == CallsNamed(u, {"createOperation", "updateOperation"})
  IN  [i \in 1..Len(cs) |-> cs[i].status]

TerminalStatuses == {"COMPLETED", "FAILED"}
StatusRank(status) ==
  CASE status = "RECEIVED" -> 0
    [] status = "PROCESSING" -> 1
    [] status \in TerminalStatuses -> 2

\* every updateOperation call of upload u so far has resolved
UpdatesResolved(u) == CallsNamed(u, {"updateOperation rejected"}) = <<>>

C14_RowsRejectedIsRejectedCount ==
  \A u \in CompletedUploads :
    LET b == ResponseOf(u).body
    IN  /\ operations[u].rows_rejected = TotalRows - b.inserted_count - b.updated_count
        /\ operations[u].rows_rejected = b.rejected_count

\* a file of one row with eight technical errors: rejected_count is 1 and
\* rows_rejected is 8
C14_Witness ==
  \E u \in CompletedUploads :
    /\ TotalRows = 1
    /\ ResponseOf(u).body.rejected_count = 1
    /\ Len(ResponseOf(u).body.errors) = 8
    /\ operations[u].rows_rejected = 8

(***************************************************************************)
(* C15                                                                     *)
(***************************************************************************)
\* C15 as claimed: the operation of a completed upload holds status
\* COMPLETED, rows_inserted equal to the response's inserted_count and
\* rows_updated equal to the response's updated_count.
C15_CountsPersisted ==
  \A u \in CompletedUploads :
    LET b == ResponseOf(u).body
    IN  /\ operations[u].status = "COMPLETED"
        /\ operations[u].rows_inserted = b.inserted_count
        /\ operations[u].rows_updated = b.updated_count

\* a completed upload that inserted a row and updated another: rows_inserted
\* is 1 and rows_updated is still 0
C15_Witness ==
  \E u \in CompletedUploads :
    /\ ResponseOf(u).body.inserted_count = 1
    /\ ResponseOf(u).body.updated_count = 1
    /\ operations[u].status = "COMPLETED"
    /\ operations[u].rows_inserted = 1
    /\ operations[u].rows_updated = 0

(***************************************************************************)
(* C16                                                                     *)
(***************************************************************************)
ValidationCalls == {"validateTechnical", "parseToPolicy", "ruleEngine.validate"}
UpsertCalls == {"insertPolicy", "insertPolicy rejected"}

\* the place of a validation step within its row
StepRank(name) ==
  CASE name = "validateTechnical" -> 1
    [] name = "parseToPolicy" -> 2
    [] name = "ruleEngine.validate" -> 3

\* the position in calls of the call of upload u under name for row k
IndexOf(u, name, k) ==
  CHOOSE i \in 1..Len(calls) :
    calls[i].upload = u /\ calls[i].call = name /\ calls[i].row = k

Blank(text) == \A i \in 1..Len(text) : text[i] = " "

\* the date texts that are dates, in calendar order
KnownDates == <<d_2024_01_01, d_2024_12_31, d_2025_01_01>>
IsKnownDate(text) == \E i \in 1..Len(KnownDates) : KnownDates[i] = text
DateRank(text) == CHOOSE i \in 1..Len(KnownDates) : KnownDates[i] = text

\* the number check of one field fails
NumberFails(text) == isNaN(parseFloat(text)) \/ Lt(parseFloat(text), Num(0))

\* how many errors of the list are on this field with this code
Count(errs, field, code) ==
  Cardinality({i \in 1..Len(errs) : errs[i].field = field /\ errs[i].code = code})

RangeFails(input) ==
  /\ IsKnownDate(input.start_date)
  /\ IsKnownDate(input.end_date)
  /\ DateRank(input.start_date) >= DateRank(input.end_date)

\* what each check decides on its own: <<field, code, the check fails>>
Checks(input) ==
  {<<"policy_number", "REQUIRED_FIELD", Blank(input.policy_number)>>,
   <<"customer", "REQUIRED_FIELD", Blank(input.customer)>>,
   <<"start_date", "INVALID_DATE_FORMAT", ~IsKnownDate(input.start_date)>>,
   <<"end_date", "INVALID_DATE_FORMAT", ~IsKnownDate(input.end_date)>>,
   <<"start_date", "INVALID_DATE_RANGE", RangeFails(input)>>,
   <<"status", "INVALID_STATUS", input.status \notin {s_active, s_expired, s_cancelled}>>,
   <<"policy_type", "INVALID_POLICY_TYPE",
     input.policy_type \notin {s_Property, s_Auto, s_Life, s_Health}>>,
   <<"premium_usd", "INVALID_NUMBER", NumberFails(input.premium_usd)>>,
   <<"insured_value_usd", "INVALID_NUMBER", NumberFails(input.insured_value_usd)>>}

\* validateTechnical has returned for the probe
TechnicalDone == verdict.step = "technical"

\* C17: the list validateTechnical returns holds one error for each check
\* whose own condition fails, whatever the other checks decide, and nothing
\* else, each with the row number given; so it is empty exactly when every
\* check passes; and the call leaves the tables and the call log as they
\* were.
C17_AllChecksEvaluated ==
  TechnicalDone =>
    LET errs == verdict.errors
        checks == Checks(probe.input)
    IN  /\ \A c \in checks : Count(errs, c[1], c[2]) = IF c[3] THEN 1 ELSE 0
        /\ Len(errs) = Cardinality({c \in checks : c[3]})
        /\ \A i \in 1..Len(errs) : errs[i].row_number = probe.rowNumber
        /\ errs = <<>> <=> \A c \in checks : ~c[3]
        /\ policies = policies0 /\ operations = <<>> /\ calls = <<>>

\* a record that fails the eight checks that can fail together
C17_Witness ==
  /\ TechnicalDone
  /\ Len(verdict.errors) = 8
  /\ Blank(probe.input.policy_number)
  /\ NumberFails(probe.input.insured_value_usd)

(***************************************************************************)
(* C18                                                                     *)
(***************************************************************************)
\* C18: validateTechnical reports INVALID_DATE_RANGE, on start_date and
\* once, exactly when both dates parse and start_date is not before
\* end_date; equal dates are rejected and an unparseable date gives no
\* range error.
C18_DateRange ==
  TechnicalDone =>
    LET errs == verdict.errors
        input == probe.input
    IN  /\ Count(errs, "start_date", "INVALID_DATE_RANGE") =
             IF RangeFails(input) THEN 1 ELSE 0
        /\ \A i \in 1..Len(errs) :
             errs[i].code = "INVALID_DATE_RANGE" => errs[i].field = "start_date"
        /\ input.start_date = input.end_date /\ IsKnownDate(input.start_date) =>
             Count(errs, "start_date", "INVALID_DATE_RANGE") = 1
        /\ (~IsKnownDate(input.start_date) \/ ~IsKnownDate(input.end_date)) =>
             \A i \in 1..Len(errs) : errs[i].code # "INVALID_DATE_RANGE"

\* start_date equal to end_date: the range error is the only error
C18_Witness ==
  /\ TechnicalDone
  /\ probe.input.start_date = probe.input.end_date
  /\ Len(verdict.errors) = 1
  /\ verdict.errors[1].code = "INVALID_DATE_RANGE"

(***************************************************************************)
(* C19                                                                     *)
(***************************************************************************)
\* the whole text is a number: an optional sign, then digits only
IsNumberText(text) ==
  LET body == IF text # <<>> /\ Head(text) \in {"-", "+"} THEN Tail(text) ELSE text
  IN  /\ body # <<>>
      /\ \A i \in 1..Len(body) : body[i] \in Digits

\* the number text is below zero
IsNegativeText(text) ==
  /\ IsNumberText(text)
  /\ Head(text) = "-"
  /\ DigitsValue(Tail(text)) > 0

NumericFields == {"premium_usd", "insured_value_usd"}

\* C19 as claimed: for each numeric field on its own, validateTechnical
\* reports INVALID_NUMBER exactly when the whole text of the field is not
\* a number or the number is negative; zero and every other non-negative
\* number pass.
C19_InvalidNumberIffNotNumeric ==
  TechnicalDone =>
    \A f \in NumericFields :
      Count(verdict.errors, f, "INVALID_NUMBER") =
        IF ~IsNumberText(probe.input[f]) \/ IsNegativeText(probe.input[f])
        THEN 1 ELSE 0

\* a record with premium_usd '100abc' passes every technical check and is
\* normalized to a policy with premium 100
C19_Witness ==
  /\ verdict.step = "business"
  /\ probe.input.premium_usd = <<"1", "0", "0", "a", "b", "c">>
  /\ verdict.policy.premium_usd = Num(100)

(***************************************************************************)
(* C20                                                                     *)
(***************************************************************************)
\* RuleEngine.validate has returned for the probe
BusinessDone == verdict.step = "business"

\* the error a minimum-value rule gives for the probe
TooLow(code, message) ==
  [row_number |-> probe.rowNumber, field |-> "insured_value_usd",
   code |-> code, message |-> message]

\* C20: for a technically valid record the rule engine returns one error,
\* PROPERTY_VALUE_TOO_LOW on insured_value_usd, exactly when the policy is
\* a Property policy insured below 5000, and one error, AUTO_VALUE_TOO_LOW
\* on insured_value_usd, exactly when it is an Auto policy insured below
\* 10000; it returns no error otherwise, so 5000 and 10000 pass and Life
\* and Health policies always pass.
C20_DefaultRules ==
  BusinessDone =>
    LET type == probe.input.policy_type
        value == verdict.policy.insured_value_usd.val
    IN  verdict.errors =
          IF type = s_Property /\ value < 5000
          THEN <<TooLow("PROPERTY_VALUE_TOO_LOW",
                        "Property policies must have insured value >= $5,000")>>
          ELSE IF type = s_Auto /\ value < 10000
          THEN <<TooLow("AUTO_VALUE_TOO_LOW",
                        "Auto policies must have insured value >= $10,000")>>
          ELSE <<>>

\* an Auto policy insured at 10000 passes the rules
C20_Witness ==
  /\ BusinessDone
  /\ probe.input.policy_type = s_Auto
  /\ probe.input.insured_value_usd = <<"1", "0", "0", "0", "0">>
  /\ verdict.policy.insured_value_usd = Num(10000)
  /\ verdict.errors = <<>>

(***************************************************************************)
(* C21                                                                     *)
(***************************************************************************)
\* C21: a request without a file makes no parse, validation or upsert
\* call and leaves the table as it was; when the handler has answered with
\* every update resolved, the operation went RECEIVED, PROCESSING, FAILED,
\* its error_summary is 'No file uploaded. Please send a CSV file.', and
\* the one response has status 500 and carries that error.
C21_NoFile ==
  \A u \in Uploads :
    file.kind = "none" =>
      /\ CallsNamed(u, RowCalls \cup {"parse"}) = <<>>
      /\ policies = policies0
      /\ (Answered(u) /\ UpdatesResolved(u)) =>
           LET text == Message(<<"No file uploaded. Please send a CSV file.">>)
           IN  /\ OperationLog(u) = <<"RECEIVED", "PROCESSING", "FAILED">>
               /\ operations[u].status = "FAILED"
               /\ operations[u].error_summary = text
               /\ Len(ResponsesOf(u)) = 1
               /\ ResponseOf(u).status = 500
               /\ ResponseOf(u).body.error = text
               /\ ResponseOf(u).body.operation_id = u

\* a request without a file answered with 500 while the table holds policies
C21_Witness ==
  \E u \in Uploads :
    /\ file.kind = "none"
    /\ Answered(u)
    /\ UpdatesResolved(u)
    /\ ResponseOf(u).status = 500
    /\ operations[u].status = "FAILED"
    /\ policies # {}

(***************************************************************************)
(* C22                                                                     *)
(***************************************************************************)
\* findAll has issued its page query for the probe
FindAllQueried == verdict.step \in {"found", "rejected"}

\* the limit and the offset the filters hold, as numbers
GivenNumber(x) == ~x.undefined /\ ~x.nan

\* what findAll reports is what its query used, and never more than 100 rows
ReportsWhatItUsed ==
  verdict.step = "found" =>
    /\ verdict.pagination.limit = verdict.query.limit
    /\ verdict.pagination.offset = verdict.query.offset
    /\ verdict.pagination.limit <= 100
    /\ Len(verdict.items) <= verdict.pagination.limit
    /\ verdict.items = Page(probe.rows, verdict.query.limit, verdict.query.offset)

\* C22 as claimed: the page size is min(limit, 100) for every limit given
\* and 25 when none is given, the offset is the one given and 0 when none
\* is given, and the reported limit and offset are those of the query.
C22_LimitIsMinOfGiven ==
  FindAllQueried =>
    LET limit == probe.filters.limit
        offset == probe.filters.offset
    IN  /\ verdict.query.limit =
             IF GivenNumber(limit) THEN Min(limit.val, 100) ELSE 25
        /\ verdict.query.offset = IF GivenNumber(offset) THEN offset.val ELSE 0
        /\ ReportsWhatItUsed

\* C22 amended: the page size is min(limit, 100), with 25 taken for the
\* limit when none is given or the one given is 0 or not a number; the
\* offset is the one given and 0 when none is given; the reported limit
\* never exceeds 100, and the reported limit and offset are those of the
\* query.
C22_Pagination ==
  FindAllQueried =>
    LET limit == probe.filters.limit
        offset == probe.filters.offset
    IN  /\ verdict.query.limit =
             IF GivenNumber(limit) /\ limit.val # 0 THEN Min(limit.val, 100) ELSE 25
        /\ verdict.query.offset = IF GivenNumber(offset) THEN offset.val ELSE 0
        /\ ReportsWhatItUsed

\* a requested limit of 200 on 120 rows: 100 rows returned from the offset
C22_Witness ==
  /\ verdict.step = "found"
  /\ probe.filters.limit = Defined(200)
  /\ probe.filters.offset = Defined(1)
  /\ verdict.pagination.limit = 100
  /\ Len(verdict.items) = 100
  /\ verdict.items[1] = 2

(***************************************************************************)
(* C23                                                                     *)
(***************************************************************************)
\* the error a rule gives for a row
ErrorOf(rule, rowNumber) ==
  [row_number |-> rowNumber, field |-> rule.field, code |-> rule.errorCode,
   message |-> rule.errorMessage]

\* the registrations in rs of rules that apply to the policy and whose
\* validate is false
ViolatedIn(rs, policy) ==
  {j \in 1..Len(rs) : appliesTo(rs[j], policy) /\ ~ruleValidate(rs[j], policy)}

ErrorSet(errs) == {errs[n] : n \in 1..Len(errs)}
\* the orders in which the rules of rs can be registered
RECURSIVE Orders(_)
Orders(rs) ==
  IF rs = <<>> THEN {<<>>}
  ELSE UNION {{<<rs[i]>> \o q :
                 q \in Orders(SubSeq(rs, 1, i - 1) \o SubSeq(rs, i + 1, Len(rs)))} :
              i \in 1..Len(rs)}

\* C23: for every policy, validate returns one error for each registered
\* rule that applies to it and whose validate is false, in registration
\* order, and nothing else; and the set of errors is the one the engine
\* returns with the same rules registered in any other order.
C23_AllViolatedRules ==
  verdict.step = "validated" =>
    \A i \in 1..Len(probe.items) :
      LET errs == verdict.errors[i]
          rs == verdict.rules
          policy == probe.items[i].policy
          row == probe.items[i].rowNumber
          violated == ViolatedIn(rs, policy)
      IN  /\ Len(errs) = Cardinality(violated)
          /\ \A j \in violated :
               errs[Cardinality({k \in violated : k <= j})] = ErrorOf(rs[j], row)
          /\ ErrorSet(errs) = {ErrorOf(rs[j], row) : j \in violated}
          /\ \A other \in Orders(rs) :
               ErrorSet(RunRules(other, policy, row)) = ErrorSet(errs)

\* a Property policy below the minimum on an engine with two more rules
\* for Property: three errors
C23_Witness ==
  /\ verdict.step = "validated"
  /\ Len(verdict.rules) = 4
  /\ \E i \in 1..Len(probe.items) :
       /\ Len(verdict.errors[i]) = 3
       /\ Cardinality(ErrorSet(verdict.errors[i])) = 3

(***************************************************************************)
(* C24                                                                     *)
(***************************************************************************)
IsPrefix(q, r) == Len(q) <= Len(r) /\ SubSeq(r, 1, Len(q)) = q

\* validate was called, rules were registered, and validate was called again
ValidatedTwice ==
  /\ verdict.step = "validated"
  /\ verdict.earlier.step = "validated"

\* the rules registered between the two calls
RegisteredBetween ==
  SubSeq(verdict.rules, Len(verdict.earlier.rules) + 1, Len(verdict.rules))

\* C24: when rules that always fail, each for one policy type, are
\* registered between two calls of validate, the rules held before are
\* still held, a policy of a type none of the new rules applies to gets
\* the errors it got before, and a policy of such a type gets the errors it
\* got before followed by the errors of the new rules for its type.
C24_RuleIndependence ==
  ValidatedTwice =>
    /\ IsPrefix(verdict.earlier.rules, verdict.rules)
    /\ \A i \in 1..Len(probe.items) :
         LET type == probe.items[i].policy.policy_type
             row == probe.items[i].rowNumber
             added == SelectSeq(RegisteredBetween, LAMBDA r : r.appliesToType = type)
             before == verdict.earlier.errors[i]
             after == verdict.errors[i]
         IN  /\ added = <<>> => after = before
             /\ after = before \o [k \in 1..Len(added) |-> ErrorOf(added[k], row)]

\* a rule for Life is registered: the Life policy of the batch gets its
\* error, the Property policy below the minimum keeps its one error
C24_Witness ==
  /\ ValidatedTwice
  /\ RegisteredBetween = <<TestRule(s_Life, "TEST_RULE")>>
  /\ \E i, j \in 1..Len(probe.items) :
       /\ probe.items[i].policy.policy_type = s_Life
       /\ verdict.earlier.errors[i] = <<>>
       /\ Len(verdict.errors[i]) = 1
       /\ probe.items[j].policy.policy_type = s_Property
       /\ Len(verdict.earlier.errors[j]) = 1
       /\ verdict.errors[j] = verdict.earlier.errors[j]

(***************************************************************************)
(* C25                                                                     *)
(***************************************************************************)
\* C25: execute returns null when the rule does not apply, and then it has
\* not called validate; it returns null when the rule applies and validate
\* is true; otherwise it returns the error with the row number given and
\* the rule's field, errorCode and errorMessage.
C25_Execute ==
  verdict.step = "executed" =>
    LET rule == verdict.rule
        policy == verdict.item.policy
    IN  /\ ~appliesTo(rule, policy) =>
             /\ verdict.result = <<>>
             /\ verdict.consulted = <<"appliesTo">>
        /\ (appliesTo(rule, policy) /\ ruleValidate(rule, policy)) =>
             verdict.result = <<>>
        /\ (appliesTo(rule, policy) /\ ~ruleValidate(rule, policy)) =>
             verdict.result =
               <<[row_number |-> verdict.item.rowNumber, field |-> rule.field,
                  code |-> rule.errorCode, message |-> rule.errorMessage]>>

\* the Property rule executed on a Life policy insured below the Property
\* minimum: null
C25_Witness ==
  /\ verdict.step = "executed"
  /\ verdict.rule = PropertyMinInsuredValueRule
  /\ verdict.item.policy.policy_type = s_Life
  /\ ~ruleValidate(verdict.rule, verdict.item.policy)
  /\ verdict.result = <<>>

(***************************************************************************)
(* C30                                                                     *)
(***************************************************************************)
RowNumbersOf(q) == {q[k].rowNumber : k \in 1..Len(q)}
InInputOrder(q) == \A a, b \in 1..Len(q) : a < b => q[a].rowNumber < q[b].rowNumber

RECURSIVE Flatten(_)
Flatten(qs) == IF qs = <<>> THEN <<>> ELSE Head(qs) \o Flatten(Tail(qs))

\* C30: validateBatch puts every item of the batch in exactly one of valid
\* and invalid, each in input order; the valid items are the items given
\* that violate no rule, the invalid items are the items given that
\* violate a rule, each with its errors; allErrors is the errors of the
\* invalid items one after the other; for an empty batch all three are
\* empty.  The items of a batch are numbered by their position.
C30_ValidateBatchPartitions ==
  verdict.step = "batched" =>
    LET items == probe.items
        rs == verdict.rules
        valid == verdict.result.valid
        invalid == verdict.result.invalid
        errorsOf(item) == RunRules(rs, item.policy, item.rowNumber)
    IN  /\ Len(valid) + Len(invalid) = Len(items)
        /\ RowNumbersOf(valid) \cup RowNumbersOf(invalid) = 1..Len(items)
        /\ RowNumbersOf(valid) \cap RowNumbersOf(invalid) = {}
        /\ InInputOrder(valid)
        /\ InInputOrder(invalid)
        /\ \A k \in 1..Len(valid) :
             /\ valid[k] = items[valid[k].rowNumber]
             /\ errorsOf(valid[k]) = <<>>
        /\ \A k \in 1..Len(invalid) :
             /\ invalid[k] = items[invalid[k].rowNumber] @@ [errors |-> invalid[k].errors]
             /\ invalid[k].errors = errorsOf(items[invalid[k].rowNumber])
             /\ invalid[k].errors # <<>>
        /\ verdict.result.allErrors = Flatten([k \in 1..Len(invalid) |-> invalid[k].errors])
        /\ items = <<>> =>
             verdict.result = [valid |-> <<>>, invalid |-> <<>>, allErrors |-> <<>>]

\* a batch of a valid, an invalid and a valid item, the invalid one with
\* more than one error
C30_Witness ==
  /\ verdict.step = "batched"
  /\ Len(probe.items) = 3
  /\ RowNumbersOf(verdict.result.valid) = {1, 3}
  /\ RowNumbersOf(verdict.result.invalid) = {2}
  /\ Len(verdict.result.allErrors) = 2

(***************************************************************************)
(* C26                                                                     *)
(***************************************************************************)
\* a text that is not empty and has no blank at either end
TrimmedText(s) == s # <<>> /\ Trim(s) = s

\* what validateTechnical guarantees of the policy parsed from a row
WellFormed(p) ==
  /\ TrimmedText(p.policy_number)
  /\ TrimmedText(p.customer)
  /\ p.policy_type \in VALID_POLICY_TYPES
  /\ p.status \in VALID_STATUSES
  /\ Lt(p.start_date, p.end_date)
  /\ Ge(p.premium_usd, Num(0))
  /\ Ge(p.insured_value_usd, Num(0))

RecordInvariants(p) ==
  /\ WellFormed(p)
  /\ p.policy_type = s_Property => Ge(p.insured_value_usd, Num(PROPERTY_MIN_VALUE))
  /\ p.policy_type = s_Auto => Ge(p.insured_value_usd, Num(AUTO_MIN_VALUE))

\* C26: in every state of a sequence of uploads into a table that was
\* empty, every stored policy has a non-empty trimmed policy_number and
\* customer, a policy_type and status of the lists, start_date before
\* end_date, premium_usd and insured_value_usd not below 0 and
\* insured_value_usd not below the minimum of its type; and every row read
\* that passes validateTechnical is parsed to a policy with these texts,
\* dates and numbers, none of them NaN.  (The rows read are looked at in
\* the state that follows the loop of validation; they are not changed
\* afterwards.)
C26_StoredPoliciesValid ==
  /\ \A p \in policies : RecordInvariants(p)
  /\ \A u \in Uploads :
       (up[u].pc = "persist" /\ up[u].next = 0) =>
         \A i \in 1..Len(up[u].records) :
           validateTechnical(up[u].records[i], i) = <<>> =>
             WellFormed(parseToPolicy(up[u].records[i]))

\* both uploads have answered, a row of the file was rejected and the
\* other is stored, with the values of a row whose cell had a blank to trim
C26_Witness ==
  /\ \A u \in Uploads : up[u].pc = "done"
  /\ Cardinality(policies) = 1
  /\ \E p \in policies : p.customer = <<"E", "v", "e">>
  /\ \E u \in Uploads : up[u].allErrors # <<>>

(***************************************************************************)
(* C28                                                                     *)
(***************************************************************************)
\* the operation record of upload u was created
RecordCreated(u) == u \in DOMAIN operations

\* upload u has sent one response, of a status upload() sends, and its
\* operation record is COMPLETED or FAILED
AnsweredAndTerminal(u) ==
  /\ Len(ResponsesOf(u)) = 1
  /\ ResponseOf(u).status \in {200, 207, 422, 500}
  /\ operations[u].status \in TerminalStatuses

\* C28: when every database call settles, an upload whose operation
\* record was created comes to a state where it has sent exactly one
\* response, with status 200, 207, 422 or 500, and its record is COMPLETED
\* or FAILED.
C28_EventuallyAnswered ==
  \A u \in Uploads : RecordCreated(u) ~> AnsweredAndTerminal(u)

\* the update to FAILED was rejected: upload() has ended, no response was
\* sent and the record is still PROCESSING
C28_Witness ==
  \E u \in Uploads :
    /\ up[u].pc = "rejected"
    /\ RecordCreated(u)
    /\ CallsNamed(u, {"updateOperation rejected"}) # <<>>
    /\ operations[u].status = "PROCESSING"
    /\ ResponsesOf(u) = <<>>

(***************************************************************************)
(* C29                                                                     *)
(***************************************************************************)
\* the row numbers that occur in a list of errors
ErrorRows(errors) == {errors[k].row_number : k \in 1..Len(errors)}

\* the row numbers for which upload u made an upsert that resolved
UpsertedRows(u) == {InsertCallsOf(u)[k].row : k \in 1..Len(InsertCallsOf(u))}

\* C29: in every completed upload, rejected_count is the number of
\* distinct row numbers in errors; the rows with an error and the rows
\* upserted are disjoint and together are all the rows of the file, and
\* inserted_count + updated_count is the number of rows upserted.
C29_RejectedCountIsErrorRows ==
  \A u \in CompletedUploads :
    LET body == ResponseOf(u).body
    IN  /\ body.rejected_count = Cardinality(ErrorRows(body.errors))
        /\ ErrorRows(body.errors) \cap UpsertedRows(u) = {}
        /\ ErrorRows(body.errors) \cup UpsertedRows(u) = 1..TotalRows
        /\ body.inserted_count + body.updated_count = Cardinality(UpsertedRows(u))

\* a completed upload with one row rejected for more than one error and
\* one row upserted
C29_Witness ==
  \E u \in CompletedUploads :
    LET body == ResponseOf(u).body
    IN  /\ body.rejected_count = 1
        /\ Len(body.errors) > 1
        /\ body.inserted_count + body.updated_count = 1

(***************************************************************************)
(* C27                                                                     *)
(***************************************************************************)
\* the upserts of policy number k that have resolved, in the order made
UpsertsOfKey(k) == SelectSeq(InsertCalls, LAMBDA c : c.policy.policy_number = k)

\* the valid rows of upload u with policy number k
ValidRowsWithKey(u, k) ==
  {i \in 1..Len(up[u].validPolicies) :
     up[u].validPolicies[i].policy.policy_number = k}

\* uploads u and v were in their loops of upserts at the same time
Overlapped(u, v) ==
  \E a, b, c \in 1..Len(calls) :
    /\ a < b /\ b < c
    /\ calls[a].upload = u /\ calls[c].upload = u /\ calls[b].upload = v
    /\ calls[b].call = "createOperation"

\* C27: whatever the order of the upserts of concurrent uploads, the
\* table holds at most one policy for a policy number, and the policy held
\* for a number is the one given to the last upsert of that number; each
\* upload counts as inserted its upserts that found no row and as updated
\* the others; and for a number absent at first that is once among the
\* valid rows of each of two uploads, when both have upserted it, one of
\* the two upserts was an insert and the other an update.
C27_ConcurrentUpserts ==
  /\ UniqueKeys(policies)
  /\ \A p \in policies :
       LET cs == UpsertsOfKey(p.policy_number)
       IN  cs # <<>> /\ p = cs[Len(cs)].policy
  /\ \A u \in Uploads :
       LET cs == InsertCallsOf(u)
       IN  /\ up[u].insertedCount = Len(SelectSeq(cs, LAMBDA c : ~c.was_updated))
           /\ up[u].updatedCount = Len(SelectSeq(cs, LAMBDA c : c.was_updated))
  /\ \A u, v \in Uploads : \A k \in StoredKeys(policies) :
       LET cs == UpsertsOfKey(k)
       IN  (/\ u < v
            /\ Cardinality(ValidRowsWithKey(u, k)) = 1
            /\ Cardinality(ValidRowsWithKey(v, k)) = 1
            /\ \A w \in Uploads \ {u, v} : ValidRowsWithKey(w, k) = {}
            /\ Len(cs) = 2)
           => /\ {cs[1].upload, cs[2].upload} = {u, v}
              /\ ~cs[1].was_updated
              /\ cs[2].was_updated
              /\ \E w \in {u, v} : \E x \in {u, v} \ {w} :
                   /\ k \notin {up[w].updatedPolicyNumbers[i] :
                                   i \in 1..Len(up[w].updatedPolicyNumbers)}
                   /\ k \in {up[x].updatedPolicyNumbers[i] :
                                i \in 1..Len(up[x].updatedPolicyNumbers)}

\* the second request arrived between two upserts of the first and its
\* upsert of a number came before the first request's: the second counts
\* the insert, the first the update, and the first's values are stored
C27_Witness ==
  /\ Overlapped(1, 2)
  /\ up[1].pc = "done" /\ up[2].pc = "done"
  /\ \E k \in StoredKeys(policies) :
       LET cs == UpsertsOfKey(k)
       IN  /\ Cardinality(ValidRowsWithKey(1, k)) = 1
           /\ Cardinality(ValidRowsWithKey(2, k)) = 1
           /\ Len(cs) = 2
           /\ cs[1].upload = 2 /\ cs[2].upload = 1
           /\ cs[1].policy # cs[2].policy
           /\ cs[2].policy \in policies
           /\ up[2].insertedCount = 1 /\ up[1].updatedCount = 1

=============================================================================
